---- MODULE Spec2Model ----
(***************************************************************************)
(* Nimbus: natural-language weather queries.                               *)
(*                                                                         *)
(* The module models                                                       *)
(*   - the deterministic fallback intent parser (parseIntentFallback),     *)
(*     character by character, strings being sequences of 1-char strings;  *)
(*   - the intent schema and the request schemas of the HTTP routes;       *)
(*   - the retry wrapper around every model, geolocation and provider      *)
(*     call;                                                               *)
(*   - the five request paths: WeatherCLI.processQuery, POST /weather,     *)
(*     GET /forecast, POST /compare and the standalone server's            *)
(*     POST /api/weather.                                                  *)
(***************************************************************************)
EXTENDS Integers, Sequences, FiniteSets, TLC

(***************************************************************************)
(* Strings                                                                 *)
(***************************************************************************)

Uppers == <<"A","B","C","D","E","F","G","H","I","J","K","L","M",
            "N","O","P","Q","R","S","T","U","V","W","X","Y","Z">>

Lowers == <<"a","b","c","d","e","f","g","h","i","j","k","l","m",
            "n","o","p","q","r","s","t","u","v","w","x","y","z">>

Range(s) == { s[i] : i \in DOMAIN s }

IsUpper(c) == c \in Range(Uppers)

IsLower(c) == c \in Range(Lowers)

\* \s of the regular expressions (the queries hold no other white space)
IsSpace(c) == c = " "

\* \w of the regular expressions, which decides \b
IsWordChar(c) ==
  IsUpper(c) \/ IsLower(c) \/ c \in {"0","1","2","3","4","5","6","7","8","9","_"}

\* the character class [A-Za-z\s]
IsCityChar(c) == IsUpper(c) \/ IsLower(c) \/ IsSpace(c)

LowerChar(c) ==
  IF IsUpper(c) THEN Lowers[CHOOSE i \in DOMAIN Uppers : Uppers[i] = c] ELSE c

\* String.prototype.toLowerCase
toLowerCase(s) == [i \in DOMAIN s |-> LowerChar(s[i])]

\* s holds w at position i (1-based)
StartsAt(s, i, w) ==
  /\ i >= 1
  /\ i + Len(w) - 1 <= Len(s)
  /\ \A k \in 1..Len(w) : s[i + k - 1] = w[k]

\* String.prototype.includes
includes(s, w) == \E i \in 1..(Len(s) + 1) : StartsAt(s, i, w)

MinOf_greatest(S) == CHOOSE i \in S : \A j \in S : j <= i

MinOf(S) == CHOOSE i \in S : \A j \in S : i <= j

MaxOf(S) == CHOOSE i \in S : \A j \in S : j <= i

\* s from its first to its last character of keep
trimTo(s, keep) == IF keep = {} THEN <<>> ELSE SubSeq(s, MinOf(keep), MaxOf(keep))

\* String.prototype.trim
trim(s) == trimTo(s, { i \in DOMAIN s : ~IsSpace(s[i]) })

\* the words of the parser, of the queries and of the replies, character by
\* character
Word ==
  [ in |-> <<"i","n">>,
    for |-> <<"f","o","r">>,
    at |-> <<"a","t">>,
    today |-> <<"t","o","d","a","y">>,
    tomorrow |-> <<"t","o","m","o","r","r","o","w">>,
    next |-> <<"n","e","x","t">>,
    weekend |-> <<"w","e","e","k","e","n","d">>,
    weather |-> <<"w","e","a","t","h","e","r">>,
    forecast |-> <<"f","o","r","e","c","a","s","t">>,
    here |-> <<"h","e","r","e">>,
    my_location |-> <<"m","y"," ","l","o","c","a","t","i","o","n">>,
    compare |-> <<"c","o","m","p","a","r","e">>,
    vs |-> <<"v","s">>,
    Unknown |-> <<"U","n","k","n","o","w","n">>,
    London |-> <<"L","o","n","d","o","n">>,
    Paris |-> <<"P","a","r","i","s">>,
    Boston |-> <<"B","o","s","t","o","n">>,
    auto |-> <<"a","u","t","o">>,
    space |-> <<" ">> ]

(***************************************************************************)
(* The fallback intent parser                                              *)
(***************************************************************************)

\* an optional field: {} when absent (undefined), {v} when it holds v
None == {}

Some(v) == {v}

The(o) == CHOOSE v \in o : TRUE

\* (?:today|tomorrow|this|next|weekend|weather|forecast)
Keywords == {Word.today, Word.tomorrow, <<"t","h","i","s">>, Word.next, Word.weekend, Word.weather, Word.forecast}

\* \b before position p
WordBoundary(s, p) ==
  (p > 1 /\ IsWordChar(s[p - 1])) # (p <= Len(s) /\ IsWordChar(s[p]))

\* (?:in|for|at) at position p, after \b: the length of the preposition
\* there, 0 when there is none
PrepositionAt(s, p) ==
  IF ~WordBoundary(s, p) THEN 0
  ELSE IF StartsAt(s, p, Word.in) THEN Len(Word.in)
  ELSE IF StartsAt(s, p, Word.for) THEN Len(Word.for)
  ELSE IF StartsAt(s, p, Word.at) THEN Len(Word.at)
  ELSE 0

\* the length of the run of white space that starts at position i
SpaceRun(s, i) ==
  IF i > Len(s) THEN 0
  ELSE CHOOSE k \in 0..(Len(s) + 1 - i) :
         /\ \A j \in 0..(k - 1) : IsSpace(s[i + j])
         /\ (i + k > Len(s) \/ ~IsSpace(s[i + k]))

\* (?:\s+(?:today|...|forecast)|$) tried at position g, where run white
\* space characters follow: the positions after the match (at most one: \s+
\* is greedy and no keyword starts with a space)
TailAfter(s, g, run) ==
  { g + run + Len(kw) : kw \in { w \in Keywords : run >= 1 /\ StartsAt(s, g + run, w) } }
  \cup (IF g = Len(s) + 1 THEN {g} ELSE {})

TailEnds(s, g) == TailAfter(s, g, SpaceRun(s, g))

\* the ways \s+([A-Za-z\s]+?)(?:...) matches from position a, where run
\* white space characters follow: <<length of \s+, length of the group>>
GroupCandidates(s, a, run) ==
  { c \in (1..run) \X (1..Len(s)) :
      /\ a + c[1] + c[2] - 1 <= Len(s)
      /\ \A i \in (a + c[1])..(a + c[1] + c[2] - 1) : IsCityChar(s[i])
      /\ TailEnds(s, a + c[1] + c[2]) # {} }

\* \s+ is greedy (the longest run first), the group lazy (the shortest first)
FirstCandidate(cands) ==
  CHOOSE c \in cands :
    \A d \in cands : c[1] > d[1] \/ (c[1] = d[1] /\ c[2] <= d[2])

MatchRecord(s, gs, len) ==
  [group |-> SubSeq(s, gs, gs + len - 1), end |-> The(TailEnds(s, gs + len))]

MatchAmong(s, a, cands) ==
  IF cands = {} THEN {}
  ELSE {MatchRecord(s, a + FirstCandidate(cands)[1], FirstCandidate(cands)[2])}

MatchAfter(s, a) == MatchAmong(s, a, GroupCandidates(s, a, SpaceRun(s, a)))

\* the match of cityPattern that starts at position p: {} or one record
\* [group, end]
MatchAt(s, p) ==
  IF PrepositionAt(s, p) = 0 THEN {} ELSE MatchAfter(s, p + PrepositionAt(s, p))

\* if (city && city.length > 1 && !cities.includes(city)) cities.push(city)
pushCity(cities, city) ==
  IF Len(city) > 1 /\ city \notin Range(cities) THEN Append(cities, city) ELSE cities

\* the while loop over cityPattern.exec(query), lastIndex being from - 1
RECURSIVE execLoop(_, _, _)

execMatch(s, cities, m) == execLoop(s, m.end, pushCity(cities, trim(m.group)))

execFirst(s, cities, starts) ==
  IF starts = {} THEN cities ELSE execMatch(s, cities, The(MatchAt(s, MinOf(starts))))

execLoop(s, from, cities) ==
  execFirst(s, cities, { p \in from..Len(s) : MatchAt(s, p) # {} })

extractCities(query) == execLoop(query, 1, <<>>)

fallbackDate(lowerQuery) ==
  IF includes(lowerQuery, Word.tomorrow)
  THEN [kind |-> "tomorrow", days |-> None, weekend |-> Some(FALSE)]
  ELSE IF includes(lowerQuery, Word.weekend)
  THEN [kind |-> "range", days |-> Some(2), weekend |-> Some(TRUE)]
  ELSE IF includes(lowerQuery, Word.forecast) \/ includes(lowerQuery, Word.next)
  THEN [kind |-> "range", days |-> Some(5), weekend |-> Some(FALSE)]
  ELSE [kind |-> "today", days |-> None, weekend |-> Some(FALSE)]

fallbackUnits(lowerQuery) ==
  IF includes(lowerQuery, <<"c","e","l","s","i","u","s">>) \/ includes(lowerQuery, <<"c">>)
  THEN "metric" ELSE "imperial"

\* the tags pushed to extras, in the order of the if statements
extrasPushed(lowerQuery) ==
  (IF includes(lowerQuery, <<"u","m","b","r","e","l","l","a">>) THEN <<"umbrella">> ELSE <<>>)
  \o (IF \/ includes(lowerQuery, <<"r","a","i","n">>)
         \/ includes(lowerQuery, <<"p","r","e","c","i","p","i","t","a","t","i","o","n">>)
      THEN <<"precipitation">> ELSE <<>>)
  \o (IF includes(lowerQuery, <<"w","i","n","d">>) THEN <<"wind">> ELSE <<>>)
  \o (IF includes(lowerQuery, <<"u","v">>) \/ includes(lowerQuery, <<"s","u","n">>)
      THEN <<"uv">> ELSE <<>>)

\* extras: extras.length > 0 ? extras : undefined
optionalExtras(extras) == IF Len(extras) > 0 THEN Some(extras) ELSE None

fallbackExtras(lowerQuery) == optionalExtras(extrasPushed(lowerQuery))

fallbackCompare(lowerQuery) ==
  \/ includes(lowerQuery, Word.compare)
  \/ includes(lowerQuery, Word.vs)
  \/ includes(lowerQuery, <<"v","e","r","s","u","s">>)

fallbackCities_asFound(cities) == cities

\* cities: cities.length > 0 ? cities : ["Unknown"]
fallbackCities(cities) == IF Len(cities) > 0 THEN cities ELSE <<Word.Unknown>>

\* the statements of parseIntentFallback after the extraction of the cities
fallbackIntent(lowerQuery, cities) ==
  IF Len(cities) = 0
     /\ (includes(lowerQuery, Word.here) \/ includes(lowerQuery, Word.my_location))
  THEN [cities |-> <<Word.Unknown>>,
        date |-> [kind |-> "today", days |-> None, weekend |-> None],
        units |-> "imperial",
        extras |-> None,
        useIpLocation |-> TRUE,
        compare |-> FALSE]
  ELSE [cities |-> fallbackCities(cities),
        date |-> fallbackDate(lowerQuery),
        units |-> fallbackUnits(lowerQuery),
        extras |-> fallbackExtras(lowerQuery),
        useIpLocation |-> Len(cities) = 0,
        compare |-> fallbackCompare(lowerQuery)]

parseIntentFallback(query) == fallbackIntent(toLowerCase(query), extractCities(query))

(***************************************************************************)
(* Bounds and program constants                                            *)
(***************************************************************************)

\* the most cities a comparison names
MaxCities == 2

\* the most calendar days a provider forecast payload spans
MaxAvail == 2

\* AppConfig.loadConfig: retries
Retries == 3

\* LocationQuerySchema: days .default(3), and the routes' days || 3
DefaultDays == 3

(***************************************************************************)
(* Values                                                                  *)
(***************************************************************************)



\* the queries of the requests: "weather here", "weather in Paris",
\* "compare London and Paris weather"
Query ==
  [ here |-> Word.weather \o Word.space \o Word.here,
    paris |-> Word.weather \o Word.space \o Word.in \o Word.space \o Word.Paris,
    compare |-> Word.compare \o Word.space \o Word.London \o Word.space \o <<"a","n","d">> \o Word.space \o Word.Paris \o Word.space \o Word.weather ]

MainQueries == {Query.here, Query.paris, Query.compare}

CityPool == <<Word.London, Word.Paris, <<"T","o","k","y","o">>, <<"B","e","r","l","i","n">>>>

\* the city lists of a comparison: 2..MaxCities distinct cities
CompareLists == { SubSeq(CityPool, 1, k) : k \in 2..MaxCities }
                \cup { <<Word.Paris, Word.London>> }

(***************************************************************************)
(* The intent schema (zod)                                                 *)
(***************************************************************************)

\* the JSON object of a model answer, every field optional
RawIntent(cities, kind, days, weekend, units, useIp, compare) ==
  [cities |-> cities, kind |-> kind, days |-> days, weekend |-> weekend,
   units |-> units, extras |-> None, useIpLocation |-> useIp, compare |-> compare]

RawOutputs ==
  { RawIntent(Some(<<Word.Paris>>), Some("today"), None, None, Some("imperial"), Some(FALSE), Some(FALSE)),
    RawIntent(Some(<<Word.Unknown>>), Some("today"), None, None, None, Some(TRUE), None),
    RawIntent(Some(<<Word.here>>), Some("today"), None, None, Some("imperial"), Some(TRUE), Some(FALSE)),
    RawIntent(Some(<<Word.Paris>>), Some("tomorrow"), None, None, Some("metric"), None, None),
    RawIntent(Some(<<Word.Paris>>), Some("range"), Some(5), None, Some("imperial"), None, None),
    RawIntent(Some(<<Word.Paris>>), Some("range"), Some(3), Some(TRUE), Some("imperial"), None, None),
    RawIntent(Some(<<Word.Paris>>), Some("range"), None, Some(FALSE), Some("imperial"), None, None),
    RawIntent(Some(<<Word.Paris>>), Some("range"), Some(0), None, Some("imperial"), None, None),
    RawIntent(Some(<<Word.Paris>>), Some("today"), None, None, Some("imperial"), None, Some(TRUE)),
    RawIntent(Some(<<>>), Some("today"), None, None, Some("imperial"), None, None),
    RawIntent(None, Some("today"), None, None, Some("imperial"), None, None),
    RawIntent(Some(<<Word.Paris>>), Some("yesterday"), None, None, Some("imperial"), None, None),
    RawIntent(Some(<<Word.Paris>>), Some("today"), None, None, Some("kelvin"), None, None) }
  \cup { RawIntent(Some(cs), Some("today"), None, None, Some("metric"), Some(FALSE), Some(TRUE)) :
           cs \in CompareLists }

DateKinds == {"today", "tomorrow", "range"}

UnitSystems == {"metric", "imperial"}

\* the fields WeatherIntentSchema.parse rejects
WeatherIntentSchemaIssues(raw) ==
  (IF raw.cities = None \/ Len(The(raw.cities)) < 1 THEN {"cities"} ELSE {})
  \cup (IF raw.kind = None \/ The(raw.kind) \notin DateKinds THEN {"date.kind"} ELSE {})
  \cup (IF raw.units # None /\ The(raw.units) \notin UnitSystems THEN {"units"} ELSE {})

\* the value WeatherIntentSchema.parse returns, defaults filled in
WeatherIntentSchemaParse(raw) ==
  [cities |-> The(raw.cities),
   date |-> [kind |-> The(raw.kind), days |-> raw.days, weekend |-> raw.weekend],
   units |-> IF raw.units = None THEN "metric" ELSE The(raw.units),
   extras |-> raw.extras,
   useIpLocation |-> IF raw.useIpLocation = None THEN FALSE ELSE The(raw.useIpLocation),
   compare |-> IF raw.compare = None THEN FALSE ELSE The(raw.compare)]

\* a value of type WeatherIntent
IsWeatherIntent(i) ==
  /\ DOMAIN i = {"cities", "date", "units", "extras", "useIpLocation", "compare"}
  /\ Len(i.cities) >= 1
  /\ i.date.kind \in DateKinds
  /\ i.units \in UnitSystems
  /\ i.useIpLocation \in BOOLEAN
  /\ i.compare \in BOOLEAN

\* the JSON object of a summary answer
SummaryOutputs ==
  { [briefing |-> Some("briefing"), tips |-> Some(<<"tip">>)],
    [briefing |-> Some(""), tips |-> Some(<<>>)],
    [briefing |-> Some("briefing"), tips |-> None] }

\* the fields summarySchema.parse rejects
summarySchemaIssues(raw) ==
  (IF raw.briefing = None \/ The(raw.briefing) = "" THEN {"briefing"} ELSE {})
  \cup (IF raw.tips = None THEN {"tips"} ELSE {})

(***************************************************************************)
(* The request schemas (zod) and the validation middleware                 *)
(***************************************************************************)

\* a request payload; a field holds None when the request leaves it out.
\* summary and days carry the JSON type they arrive with: a query string
\* and a form body hold strings only.
Payload(query, city, cities, units, days, summary) ==
  [query |-> query, city |-> city, cities |-> cities, units |-> units,
   days |-> days, summary |-> summary]

Issue(field, index) == [field |-> field, index |-> index]

\* z.enum(['metric','imperial']).optional().default('imperial')
unitsIssues(p) ==
  IF p.units # None /\ The(p.units) \notin UnitSystems THEN {Issue("units", -1)} ELSE {}

\* z.boolean().optional().default(false)
summaryIssues(p) ==
  IF p.summary # None /\ The(p.summary).t # "bool" THEN {Issue("summary", -1)} ELSE {}

WeatherQuerySchemaIssues(p) ==
  (IF p.query = None \/ Len(The(p.query)) < 1 THEN {Issue("query", -1)} ELSE {})
  \cup unitsIssues(p) \cup summaryIssues(p)

LocationQuerySchemaIssues(p) ==
  (IF p.city = None \/ Len(The(p.city)) < 1 THEN {Issue("city", -1)} ELSE {})
  \cup unitsIssues(p)
  \cup (IF p.days # None
           /\ (The(p.days).t # "num" \/ The(p.days).v < 1 \/ The(p.days).v > 10)
        THEN {Issue("days", -1)} ELSE {})
  \cup summaryIssues(p)

CompareQuerySchemaIssues(p) ==
  (IF p.cities = None \/ Len(The(p.cities)) < 2 THEN {Issue("cities", -1)} ELSE {})
  \cup (IF p.cities = None THEN {}
        ELSE { Issue("cities", k - 1) :
                 k \in { j \in DOMAIN The(p.cities) : Len(The(p.cities)[j]) < 1 } })
  \cup unitsIssues(p) \cup summaryIssues(p)

SchemaIssues(s, p) ==
  CASE s = "weather" -> WeatherQuerySchemaIssues(p)
    [] s = "forecast" -> LocationQuerySchemaIssues(p)
    [] s = "compare" -> CompareQuerySchemaIssues(p)

\* schema.parse(data) when it succeeds: the defaults filled in
SchemaParse(s, p) ==
  [p EXCEPT
     !.units = IF p.units = None THEN Some("imperial") ELSE p.units,
     !.summary = IF p.summary = None THEN Some([t |-> "bool", v |-> FALSE]) ELSE p.summary,
     !.days = IF s = "forecast" /\ p.days = None
              THEN Some([t |-> "num", v |-> DefaultDays]) ELSE p.days]

(***************************************************************************)
(* State                                                                   *)
(***************************************************************************)

VARIABLES
  site,            \* which entry point serves the request
  req,             \* the request payload (after validation: the validated one)
  pc,              \* where the handler is suspended
  intent,          \* the parsed intent, None before parsing
  parsedBy,        \* "none", "primary" or "fallback"
  failed,          \* the awaited calls that failed so far, and how the parse did
  resolvedIntent,  \* WeatherCLI.processQuery: the intent resolveLocation returned
  location,        \* POST /weather: location; server: aiResponse.location
  call,            \* the retry loop of the awaited model or geolocation call
  did,             \* the kinds of call made so far
  tasks,           \* the provider calls of the request, in the order they started
  weather,         \* the weather records the fetch stage produced
  summary,         \* the summary, None when there is none
  res,             \* what the caller gets
  arg,             \* a function checked on its own: its name and argument
  out              \* that function's result, None before it is applied

vars == <<site, req, pc, intent, parsedBy, failed, resolvedIntent, location, call, did,
          tasks, weather, summary, res, arg, out>>

Sites == {"cli", "weather", "forecast", "compare", "server"}

Idle == [op |-> "none", n |-> 0, prev |-> "none"]

FirstCall(op) == [op |-> op, n |-> 1, prev |-> "none"]

NoError == [cls |-> "", service |-> "", msg |-> ""]

Error(cls, service, msg) == [cls |-> cls, service |-> service, msg |-> msg]

NoRes == [kind |-> "none", status |-> 0, success |-> FALSE, error |-> NoError,
          issues |-> {}, data |-> <<>>, summary |-> None,
          comparedCities |-> <<>>, location |-> None]

Str(v) == [t |-> "str", v |-> v]

Bool(v) == [t |-> "bool", v |-> v]

Num(v) == [t |-> "num", v |-> v]

\* the requests each entry point is given
Requests(s) ==
  CASE s = "cli" ->
         { Payload(Some(q), None, None, Some("metric"), None, None) : q \in MainQueries }
    [] s = "weather" ->
         { Payload(q, None, None, u, None, sm) :
             q \in {None, Some(<<>>)} \cup { Some(x) : x \in MainQueries },
             u \in {None, Some("kelvin")},
             sm \in {None, Some(Bool(TRUE)), Some(Str(TRUE))} }
    [] s = "forecast" ->
         { Payload(None, c, None, u, d, sm) :
             c \in {None, Some(<<>>), Some(Word.Paris)},
             u \in {None, Some("metric"), Some("kelvin")},
             d \in {None, Some(Str(5)), Some(Str(11))},
             sm \in {None, Some(Str(TRUE))} }
    [] s = "compare" ->
         { Payload(None, None, cs, u, None, sm) :
             cs \in {None, Some(<<Word.London>>), Some(<<Word.London, <<>>>>)}
                    \cup { Some(x) : x \in CompareLists },
             u \in {None, Some("kelvin")},
             sm \in {None, Some(Bool(TRUE))} }
    [] s = "server" ->
         { Payload(q, None, None, u, None, None) :
             q \in {None, Some(<<>>), Some(Query.here), Some(Query.paris)},
             u \in {None, Some("metric")} }

\* nothing has run yet
Fresh ==
  /\ pc = "start"
  /\ intent = None
  /\ parsedBy = "none"
  /\ failed = {}
  /\ resolvedIntent = None
  /\ location = None
  /\ call = Idle
  /\ did = {}
  /\ tasks = <<>>
  /\ weather = <<>>
  /\ summary = None
  /\ res = NoRes
  /\ out = None

Init ==
  /\ site \in Sites
  /\ req \in Requests(site)
  /\ arg = None
  /\ Fresh

(***************************************************************************)
(* The services                                                            *)
(***************************************************************************)

retry_oneMore(i, maxRetries, threw) ==
  IF ~threw THEN "return"
  ELSE IF i = maxRetries + 1 THEN "throw"
  ELSE "again"

\* one turn of retry's loop, attempt i (counted from 0): what follows the
\* outcome of fn
retry(i, maxRetries, threw) ==
  IF ~threw THEN "return"
  ELSE IF i = maxRetries THEN "throw"
  ELSE "again"

\* what a model call can come back with: the call fails ("throw": network,
\* timeout, HTTP error), the answer has no content ("empty"), no {...} block
\* ("noJson"), a block that is not JSON ("badJson"), or a JSON object
ModelFailures == {"throw", "empty", "noJson", "badJson"}

Malformed == {"empty", "noJson", "badJson"}

ModelResponses(bodies) ==
  { [kind |-> k, body |-> None] : k \in ModelFailures }
  \cup { [kind |-> "json", body |-> Some(b)] : b \in bodies }

\* the callback parseIntent and generateSummary hand to retry: it throws
\* unless the answer holds a JSON object
modelCallbackThrows(resp) == resp.kind # "json"

\* parseIntent after retry returned response
parseIntentValidate(response) ==
  IF WeatherIntentSchemaIssues(response) = {}
  THEN [threw |-> FALSE, value |-> Some(WeatherIntentSchemaParse(response))]
  ELSE [threw |-> TRUE, value |-> None]

\* generateSummary after retry returned response
generateSummaryValidate(response) ==
  IF summarySchemaIssues(response) = {}
  THEN [threw |-> FALSE, value |-> response.briefing]
  ELSE [threw |-> TRUE, value |-> None]

Threw == [threw |-> TRUE, value |-> None]

\* WeatherCLI.parseIntent: the primary parser, the fallback when it throws
cliParseIntent(primary, query) ==
  IF primary.threw
  THEN [by |-> "fallback", intent |-> parseIntentFallback(query)]
  ELSE [by |-> "primary", intent |-> The(primary.value)]

\* POST /weather: the primary parser, the fallback when it throws
routeParseIntent(primary, query) ==
  IF primary.threw
  THEN [by |-> "fallback", intent |-> parseIntentFallback(query)]
  ELSE [by |-> "primary", intent |-> The(primary.value)]

\* the JSON objects the standalone server's model call answers with: its
\* prompt asks for {"location", "type", "days"}
ServerOutputs ==
  { [location |-> Some(Word.Paris)], [location |-> Some(Word.auto)], [location |-> None] }

\* String.prototype.split(separator), for a separator of one character
RECURSIVE split(_, _)
split(s, separator) ==
  LET sp == { i \in DOMAIN s : s[i] = separator }
  IN  IF sp = {} THEN <<s>>
      ELSE LET i == CHOOSE j \in sp : \A k \in sp : j <= k
           IN  <<SubSeq(s, 1, i - 1)>> \o split(SubSeq(s, i + 1, Len(s)), separator)

\* Array.prototype.join(" ")
RECURSIVE join(_)
join(ws) ==
  IF Len(ws) = 0 THEN <<>>
  ELSE IF Len(ws) = 1 THEN ws[1]
  ELSE ws[1] \o Word.space \o join(Tail(ws))

stopWords ==
  { Word.weather, Word.in, Word.for, Word.at, <<"t","h","e">>, <<"w","h","a","t">>,
    <<"i","s">>, <<"h","o","w">>, <<"w","i","l","l">>, <<"b","e">> }

extractLocationFallback(query) ==
  LET words == split(toLowerCase(query), " ")
      locationWords == SelectSeq(words, LAMBDA w : w \notin stopWords /\ Len(w) > 2)
      joined == join(locationWords)
  IN  IF Len(joined) = 0 THEN <<"N","e","w"," ","Y","o","r","k">> ELSE joined

\* parseQueryWithAI: JSON.parse of the answer's content, the fallback when
\* the call or JSON.parse throws
parseQueryWithAI(resp, query) ==
  IF resp.kind # "json"
  THEN [by |-> "fallback",
        location |-> Some(IF includes(query, Word.here) THEN Word.auto
                          ELSE extractLocationFallback(query))]
  ELSE [by |-> "primary", location |-> The(resp.body).location]

\* what the geolocation provider can come back with
GeoData(city, lat) == [city |-> city, country |-> Some("US"), lat |-> lat, lon |-> Some(-71)]

GeoResponses ==
  { [kind |-> k, data |-> GeoData(None, None)] : k \in {"429", "timeout", "error"} }
  \cup { [kind |-> "ok", data |-> d] :
           d \in { GeoData(Some(Word.Boston), Some(42)),
                   GeoData(None, Some(42)),
                   GeoData(Some(Word.Boston), Some(0)) } }

\* JavaScript's !x for an optional string and an optional number
FalsyStr(o) == o = None \/ Len(The(o)) = 0

FalsyNum(o) == o = None \/ The(o) = 0

\* getCurrentLocation after retry returned response
getCurrentLocationCheck(data) ==
  IF FalsyStr(data.city) \/ data.country = None \/ FalsyNum(data.lat) \/ FalsyNum(data.lon)
  THEN [threw |-> TRUE, value |-> None]
  ELSE [threw |-> FALSE, value |-> data.city]

resolveLocation_asParsed(i, r) == [threw |-> FALSE, value |-> Some(i), error |-> NoError]

resolveLocation_default(i, r) ==
  [threw |-> FALSE,
   value |-> Some(IF r.threw THEN i
                  ELSE IF Word.Unknown \in Range(i.cities)
                  THEN [i EXCEPT !.cities = <<The(r.value)>>] ELSE i),
   error |-> NoError]

\* WeatherCLI.resolveLocation of an intent with useIpLocation, once
\* getCurrentLocation settled with r: the resolved intent, or the error
resolveLocation(i, r) ==
  IF r.threw
  THEN [threw |-> TRUE, value |-> None,
        error |-> Error("Error", "", "Failed to resolve your location")]
  ELSE [threw |-> FALSE,
        value |-> Some(IF Word.Unknown \in Range(i.cities)
                       THEN [i EXCEPT !.cities = <<The(r.value)>>] ELSE i),
        error |-> NoError]

\* POST /weather: location = geoData.city, a ServiceError when the lookup
\* threw
routeResolveLocation(r) ==
  IF r.threw
  THEN [threw |-> TRUE, value |-> None,
        error |-> Error("ServiceError", "geoip", "Failed to resolve IP location")]
  ELSE [threw |-> FALSE, value |-> r.value, error |-> NoError]

calculateDays_daysFirst(date) ==
  CASE date.kind = "range" ->
         IF date.days # None /\ The(date.days) # 0 THEN The(date.days)
         ELSE IF date.weekend # None /\ The(date.weekend) THEN 2
         ELSE 3
    [] OTHER -> 1

\* WeatherCLI.calculateDays
calculateDays(date) ==
  CASE date.kind = "today" -> 1
    [] date.kind = "tomorrow" -> 1
    [] date.kind = "range" ->
         IF date.weekend # None /\ The(date.weekend) THEN 2
         ELSE IF date.days # None /\ The(date.days) # 0 THEN The(date.days)
         ELSE 3
    [] OTHER -> 3

\* what the weather provider can come back with: an HTTP error, a timeout,
\* another failure, or a payload. cond: the current-weather payload lists a
\* condition; nb: the calendar days the forecast payload spans
ProviderFailures == {"401", "404", "429", "timeout", "error"}

ProviderResponses(op) ==
  { [kind |-> k, cond |-> TRUE, nb |-> 0] : k \in ProviderFailures }
  \cup (IF op = "current"
        THEN { [kind |-> "ok", cond |-> c, nb |-> 0] : c \in BOOLEAN }
        ELSE { [kind |-> "ok", cond |-> TRUE, nb |-> b] : b \in 0..MaxAvail })

\* the response interceptor: the message of the Error it throws
interceptor(kind) ==
  CASE kind = "401" -> "Invalid OpenWeather API key"
    [] kind = "404" -> "City not found"
    [] kind = "429" -> "rate limit exceeded"
    [] kind = "timeout" -> "Request timeout"
    [] OTHER -> "OpenWeather API error"

WeatherData(city, current, forecast) ==
  [city |-> city, current |-> current, forecast |-> forecast]

Min(a, b) == IF a <= b THEN a ELSE b

\* transformCurrentWeather
transformCurrentWeather(city, resp) ==
  IF resp.cond
  THEN [threw |-> FALSE, msg |-> "", value |-> Some(WeatherData(city, TRUE, None))]
  ELSE [threw |-> TRUE, msg |-> "No weather data available", value |-> None]

\* transformForecast: one entry for each of the first days calendar days
transformForecast(city, resp, days) ==
  [threw |-> FALSE, msg |-> "",
   value |-> Some(WeatherData(city, FALSE,
                              Some([d \in 1..Min(days, resp.nb) |-> d])))]

\* fetchWeatherForCity after getForecast(city, 2, units) returned: tomorrow
\* is the second entry
selectTomorrow(forecastData) ==
  IF Len(The(forecastData.forecast)) > 1
  THEN WeatherData(forecastData.city, FALSE, Some(<<The(forecastData.forecast)[2]>>))
  ELSE forecastData

\* a provider call: getCurrentWeather, or getForecast for days days; want:
\* what fetchWeatherForCity makes of the result ("direct": called by a route)
Task(city, op, days, units, want) ==
  [city |-> city, op |-> op, days |-> days, units |-> units, want |-> want,
   n |-> 1, prev |-> "none", st |-> "inflight", err |-> "", data |-> None]

\* WeatherCLI.fetchWeatherForCity: the provider call it starts
fetchWeatherForCity(city, date, units) ==
  LET days == calculateDays(date)
  IN  IF days = 1 /\ date.kind = "today" THEN Task(city, "current", 0, units, "today")
      ELSE IF days = 1 /\ date.kind = "tomorrow" THEN Task(city, "forecast", 2, units, "tomorrow")
      ELSE Task(city, "forecast", days, units, "range")

\* WeatherCLI.fetchWeatherData: the cities it fetches
fetchCities(i) ==
  IF i.compare /\ Len(i.cities) >= 2 THEN i.cities ELSE <<i.cities[1]>>

\* the provider answers the request of task t: retry's loop, then the
\* transformation of the payload
providerStep(t, resp, maxRetries) ==
  LET o == retry(t.n - 1, maxRetries, resp.kind # "ok")
  IN  CASE o = "again" -> [t EXCEPT !.n = t.n + 1, !.prev = resp.kind]
        [] o = "throw" -> [t EXCEPT !.st = "failed", !.prev = resp.kind,
                                    !.err = interceptor(resp.kind)]
        [] o = "return" ->
             LET r == IF t.op = "current" THEN transformCurrentWeather(t.city, resp)
                      ELSE transformForecast(t.city, resp, t.days)
             IN  IF r.threw THEN [t EXCEPT !.st = "failed", !.prev = resp.kind, !.err = r.msg]
                 ELSE [t EXCEPT !.st = "ok", !.prev = resp.kind,
                                !.data = IF t.want = "tomorrow"
                                         THEN Some(selectTomorrow(The(r.value)))
                                         ELSE r.value]

\* the global error handler: the status it answers with
errorHandler(err) ==
  IF err.cls = "ValidationError" THEN 400
  ELSE IF err.cls = "ServiceError" THEN 502
  ELSE IF err.cls = "SyntaxError" THEN 400
  ELSE IF err.msg = "Invalid OpenWeather API key" THEN 503
  ELSE 500

\* the standalone server's catch: the status it answers with
serverCatch(status) ==
  IF status = "401" THEN 500
  ELSE IF status = "404" THEN 404
  ELSE 500

(***************************************************************************)
(* The request handlers, from one await to the next                        *)
(***************************************************************************)

validateRequest_firstIssue(s, p) ==
  IF SchemaIssues(s, p) = {} THEN None
  ELSE Some([NoRes EXCEPT !.kind = "json", !.status = 400,
                          !.error = Error("ZodError", "", "Validation failed"),
                          !.issues = {CHOOSE i \in SchemaIssues(s, p) : TRUE}])

\* validateRequest(schema): None when it calls next(), else the 400 answer
\* that lists the issues of the ZodError
validateRequest(s, p) ==
  IF SchemaIssues(s, p) = {} THEN None
  ELSE Some([NoRes EXCEPT !.kind = "json", !.status = 400,
                          !.error = Error("ZodError", "", "Validation failed"),
                          !.issues = SchemaIssues(s, p)])

\* the request ends with r
Finish(r) ==
  /\ pc' = "done"
  /\ res' = r
  /\ call' = Idle

\* the answer of a request that succeeded with weather records w
OkRes(w, sum) ==
  CASE site = "cli" ->
         [NoRes EXCEPT !.kind = "rendered", !.success = TRUE, !.data = w, !.summary = sum]
    [] site = "weather" ->
         [NoRes EXCEPT !.kind = "json", !.status = 200, !.success = TRUE,
                       !.data = <<w[1]>>, !.summary = sum, !.location = location]
    [] site = "compare" ->
         [NoRes EXCEPT !.kind = "json", !.status = 200, !.success = TRUE,
                       !.data = w, !.summary = sum, !.comparedCities = The(req.cities)]
    [] OTHER ->
         [NoRes EXCEPT !.kind = "json", !.status = 200, !.success = TRUE,
                       !.data = w, !.summary = sum]

\* the answer of a request whose handler threw err
Thrown(err) ==
  IF site = "cli"
  THEN [NoRes EXCEPT !.kind = "thrown", !.error = err]
  ELSE [NoRes EXCEPT !.kind = "json", !.status = errorHandler(err), !.error = err]

\* the handler has the weather records w: it asks for a summary, or answers
BeginSummary(w) ==
  /\ weather' = w
  /\ IF site \in {"cli", "server"} \/ The(req.summary).v
     THEN /\ pc' = "summarizing"
          /\ call' = FirstCall("summary")
          /\ did' = did \cup {"summary"}
          /\ res' = res
     ELSE /\ Finish(OkRes(w, None))
          /\ did' = did

\* the provider calls ts start
StartFetch(ts) ==
  /\ tasks' = ts
  /\ pc' = "fetching"
  /\ call' = Idle

\* WeatherCLI.fetchWeatherData(i)
fetchWeatherData(i) ==
  LET cs == fetchCities(i)
  IN  IF ~(i.compare /\ Len(i.cities) >= 2) /\ Len(cs[1]) = 0
      THEN /\ Finish(Thrown(Error("Error", "", "No city specified in the query")))
           /\ tasks' = tasks
      ELSE /\ StartFetch([k \in 1..Len(cs) |-> fetchWeatherForCity(cs[k], i.date, i.units)])
           /\ res' = res

\* the geolocation call starts
StartGeo ==
  /\ pc' = "resolving"
  /\ call' = FirstCall("geo")
  /\ did' = did \cup {"geo"}
  /\ UNCHANGED <<tasks, res>>

\* the handler has the intent i: it resolves the location, or fetches
AfterIntent(i, by) ==
  /\ intent' = Some(i)
  /\ parsedBy' = by
  /\ IF site = "cli"
     THEN /\ location' = location
          /\ IF i.useIpLocation
             THEN StartGeo /\ resolvedIntent' = resolvedIntent
             ELSE /\ resolvedIntent' = Some(i)
                  /\ fetchWeatherData(i)
                  /\ did' = did
     ELSE /\ resolvedIntent' = resolvedIntent
          /\ location' = Some(IF Len(i.cities[1]) = 0
                              THEN <<"u","n","k","n","o","w","n">> ELSE i.cities[1])
          /\ IF i.useIpLocation
             THEN StartGeo
             ELSE fetchWeatherData(i) /\ did' = did

\* the model call of the parse starts
StartParse ==
  /\ pc' = "parsing"
  /\ call' = FirstCall("parse")
  /\ did' = did \cup {"parse"}

\* WeatherCLI.processQuery(query) is called
ProcessQuery ==
  /\ site = "cli"
  /\ pc = "start"
  /\ StartParse
  /\ UNCHANGED <<arg, out, site, req, intent, parsedBy, failed, resolvedIntent, location,
                 tasks, weather, summary, res>>

\* validateRequest(schema) rejects the request: the handler never runs
ValidateReject ==
  /\ site \in {"weather", "forecast", "compare"}
  /\ pc = "start"
  /\ validateRequest(site, req) # None
  /\ Finish(The(validateRequest(site, req)))
  /\ UNCHANGED <<arg, out, site, req, intent, parsedBy, failed, resolvedIntent, location,
                 did, tasks, weather, summary>>

\* POST /weather: validateRequest passes, the handler runs to its first await
PostWeather ==
  /\ site = "weather"
  /\ pc = "start"
  /\ validateRequest(site, req) = None
  /\ req' = SchemaParse(site, req)
  /\ StartParse
  /\ UNCHANGED <<arg, out, site, intent, parsedBy, failed, resolvedIntent, location,
                 tasks, weather, summary, res>>

\* GET /forecast: validateRequest passes, both provider calls start
GetForecast ==
  /\ site = "forecast"
  /\ pc = "start"
  /\ validateRequest(site, req) = None
  /\ req' = SchemaParse(site, req)
  /\ LET city == The(req'.city)
         units == The(req'.units)
         forecastDays == IF The(req'.days).v = 0 THEN DefaultDays ELSE The(req'.days).v
     IN  StartFetch(<<Task(city, "current", 0, units, "direct"),
                      Task(city, "forecast", forecastDays, units, "direct")>>)
  /\ UNCHANGED <<arg, out, site, intent, parsedBy, failed, resolvedIntent, location,
                 did, weather, summary, res>>

\* POST /compare: validateRequest passes, one provider call per city starts
PostCompare ==
  /\ site = "compare"
  /\ pc = "start"
  /\ validateRequest(site, req) = None
  /\ req' = SchemaParse(site, req)
  /\ LET cities == The(req'.cities)
     IN  StartFetch([k \in 1..Len(cities) |->
                       Task(cities[k], "current", 0, The(req'.units), "direct")])
  /\ UNCHANGED <<arg, out, site, intent, parsedBy, failed, resolvedIntent, location,
                 did, weather, summary, res>>

\* the standalone server's POST /api/weather: 400 without a query, else
\* parseQueryWithAI starts
ServerPostWeather ==
  /\ site = "server"
  /\ pc = "start"
  /\ IF FalsyStr(req.query)
     THEN /\ Finish([NoRes EXCEPT !.kind = "json", !.status = 400])
          /\ UNCHANGED <<req, did>>
     ELSE /\ req' = [req EXCEPT !.units = IF req.units = None THEN Some("imperial") ELSE req.units]
          /\ StartParse
          /\ res' = res
  /\ UNCHANGED <<arg, out, site, intent, parsedBy, failed, resolvedIntent, location,
                 tasks, weather, summary>>

\* how a model answer to parseIntent failed
ParseFailure(resp) ==
  IF resp.kind = "throw" THEN {"parseCall"}
  ELSE IF resp.kind \in Malformed THEN {"parseMalformed"}
  ELSE IF WeatherIntentSchemaIssues(The(resp.body)) # {} THEN {"parseSchema"}
  ELSE {}

\* OpenAIService.parseIntent gets an answer from the model (WeatherCLI and
\* POST /weather): retry's loop, the schema, the caller's catch
ParseAnswer(resp) ==
  /\ site \in {"cli", "weather"}
  /\ pc = "parsing"
  /\ LET o == retry(call.n - 1, Retries, modelCallbackThrows(resp))
         query == The(req.query)
     IN  IF o = "again"
         THEN /\ call' = [call EXCEPT !.n = call.n + 1, !.prev = resp.kind]
              /\ UNCHANGED <<pc, intent, parsedBy, failed, resolvedIntent, location,
                             did, tasks, res>>
         ELSE LET primary == IF o = "throw" THEN Threw
                             ELSE parseIntentValidate(The(resp.body))
                  p == IF site = "cli" THEN cliParseIntent(primary, query)
                       ELSE routeParseIntent(primary, query)
              IN  /\ failed' = failed \cup ParseFailure(resp)
                  /\ AfterIntent(p.intent, p.by)
  /\ UNCHANGED <<arg, out, site, req, weather, summary>>

\* WeatherCLI.processQuery after resolveLocation settled with r
AfterLocation(r) ==
  IF r.threw
  THEN /\ Finish(Thrown(r.error))
       /\ UNCHANGED <<resolvedIntent, location, tasks>>
  ELSE /\ resolvedIntent' = r.value
       /\ fetchWeatherData(The(r.value))
       /\ location' = location

\* POST /weather after the geolocation lookup settled with r: the weather
\* is fetched for the intent as it was parsed
AfterGeo(r) ==
  IF r.threw
  THEN /\ Finish(Thrown(r.error))
       /\ UNCHANGED <<resolvedIntent, location, tasks>>
  ELSE /\ location' = r.value
       /\ fetchWeatherData(The(intent))
       /\ resolvedIntent' = resolvedIntent

\* GeoIPService.getCurrentLocation gets an answer (WeatherCLI.resolveLocation
\* and POST /weather): retry's loop, the completeness check, then the fetch
GeoAnswer(resp) ==
  /\ site \in {"cli", "weather"}
  /\ pc = "resolving"
  /\ LET o == retry(call.n - 1, Retries, resp.kind # "ok")
         r == IF o = "throw" THEN Threw ELSE getCurrentLocationCheck(resp.data)
     IN  IF o = "again"
         THEN /\ call' = [call EXCEPT !.n = call.n + 1, !.prev = resp.kind]
              /\ UNCHANGED <<pc, failed, resolvedIntent, location, tasks, res>>
         ELSE /\ failed' = IF r.threw THEN failed \cup {"geo"} ELSE failed
              /\ IF site = "cli"
                 THEN AfterLocation(resolveLocation(The(intent), r))
                 ELSE AfterGeo(routeResolveLocation(r))
  /\ UNCHANGED <<arg, out, site, req, intent, parsedBy, did, weather, summary>>

\* the records of the tasks ts, in their order
Datas(ts) == [k \in DOMAIN ts |-> The(ts[k].data)]

validWeatherData_reversed(ts) ==
  LET v == Datas(SelectSeq(ts, LAMBDA t : t.st = "ok"))
  IN  [k \in 1..Len(v) |-> v[Len(v) + 1 - k]]

\* Array.prototype.filter(data => data !== null) on the settled calls
validWeatherData(ts) == Datas(SelectSeq(ts, LAMBDA t : t.st = "ok"))

\* the Error getCurrentWeather and getForecast throw
providerError(t) == Error("Error", "", t.err)

\* the weather provider answers the request of task k; the handler goes on
\* when what it awaits settles
ProviderAnswer(k, resp) ==
  /\ site # "server"
  /\ k \in DOMAIN tasks
  /\ tasks[k].st = "inflight"
  /\ LET t == providerStep(tasks[k], resp, Retries)
         ts == [tasks EXCEPT ![k] = t]
         settled == \A j \in DOMAIN ts : ts[j].st # "inflight"
         allOk == \A j \in DOMAIN ts : ts[j].st = "ok"
     IN  /\ tasks' = ts
         /\ IF pc # "fetching"
            THEN UNCHANGED <<pc, call, did, weather, res>>
            ELSE IF site = "compare"
            THEN \* each call has its own catch; Promise.all waits for all
                 IF ~settled THEN UNCHANGED <<pc, call, did, weather, res>>
                 ELSE IF Len(validWeatherData(ts)) = 0
                 THEN /\ Finish(Thrown(Error("ServiceError", "openweather",
                                             "Failed to fetch weather data for any city")))
                      /\ UNCHANGED <<did, weather>>
                 ELSE BeginSummary(validWeatherData(ts))
            ELSE \* Promise.all, or a single call: the first failure rejects
                 IF t.st = "failed"
                 THEN /\ Finish(Thrown(providerError(t)))
                      /\ UNCHANGED <<did, weather>>
                 ELSE IF ~allOk THEN UNCHANGED <<pc, call, did, weather, res>>
                 ELSE IF site = "forecast"
                 THEN LET currentData == The(ts[1].data)
                          forecastArray == The(The(ts[2].data).forecast)
                          limitedForecast == SubSeq(forecastArray, 1,
                                                    Min(ts[2].days, Len(forecastArray)))
                      IN  BeginSummary(<<currentData,
                                         WeatherData(ts[2].city, FALSE, Some(limitedForecast))>>)
                 ELSE BeginSummary(Datas(ts))
  /\ UNCHANGED <<arg, out, site, req, intent, parsedBy, failed, resolvedIntent, location, summary>>

\* the handler answers once its summary step settled with w
AnswerWith(w) ==
  IF w.threw
  THEN /\ Finish(Thrown(Error("Error", "", "Failed to generate summary")))
       /\ summary' = summary
  ELSE /\ summary' = w.value
       /\ Finish(OkRes(weather, w.value))

\* WeatherCLI.generateSummary: no summary when generateSummary throws
cliGenerateSummary(r) ==
  [threw |-> FALSE, value |-> IF r.threw THEN None ELSE r.value]

routeGenerateSummary_rethrow(r) == r

\* the routes' try around generateSummary: no summary when it throws
routeGenerateSummary(r) ==
  [threw |-> FALSE, value |-> IF r.threw THEN None ELSE r.value]

\* the handler after generateSummary settled with r
AfterSummary(r) ==
  /\ failed' = IF r.threw THEN failed \cup {"summary"} ELSE failed
  /\ AnswerWith(IF site = "cli" THEN cliGenerateSummary(r) ELSE routeGenerateSummary(r))

\* OpenAIService.generateSummary gets an answer from the model: retry's
\* loop, the schema, the caller's catch, then the answer to the request
SummaryAnswer(resp) ==
  /\ site # "server"
  /\ pc = "summarizing"
  /\ LET o == retry(call.n - 1, Retries, modelCallbackThrows(resp))
     IN  IF o = "again"
         THEN /\ call' = [call EXCEPT !.n = call.n + 1, !.prev = resp.kind]
              /\ UNCHANGED <<pc, failed, summary, res>>
         ELSE AfterSummary(IF o = "throw" THEN Threw
                           ELSE generateSummaryValidate(The(resp.body)))
  /\ UNCHANGED <<arg, out, site, req, intent, parsedBy, resolvedIntent, location,
                 did, tasks, weather>>

\* getWeatherData: the location it asks the provider for
serverLocation(loc) ==
  IF loc = None THEN <<"u","n","d","e","f","i","n","e","d">>
  ELSE IF The(loc) = Word.auto THEN <<"N","e","w"," ","Y","o","r","k",",","U","S">>
  ELSE The(loc)

\* how a model answer to parseQueryWithAI failed; its prompt asks for an
\* object with a location
ServerParseFailure(resp) ==
  IF resp.kind = "throw" THEN {"parseCall"}
  ELSE IF resp.kind \in Malformed THEN {"parseMalformed"}
  ELSE IF The(resp.body).location = None THEN {"parseSchema"}
  ELSE {}

\* the standalone server's parseQueryWithAI gets an answer from the model
\* (one call, no retry), then getWeatherData asks for the current weather
ServerParseAnswer(resp) ==
  /\ site = "server"
  /\ pc = "parsing"
  /\ LET aiResponse == parseQueryWithAI(resp, The(req.query))
     IN  /\ parsedBy' = aiResponse.by
         /\ failed' = failed \cup ServerParseFailure(resp)
         /\ location' = aiResponse.location
         /\ StartFetch(<<Task(serverLocation(aiResponse.location), "current", 0,
                              The(req.units), "direct")>>)
  /\ UNCHANGED <<arg, out, site, req, intent, resolvedIntent, did, weather, summary, res>>

\* getWeatherData gets an answer from the provider (no retry): the forecast
\* is asked for after the current weather; any failure ends the request
ServerProviderAnswer(resp) ==
  /\ site = "server"
  /\ pc = "fetching"
  /\ LET k == Len(tasks)
         t == tasks[k]
     IN  IF resp.kind # "ok" \/ ~resp.cond
         THEN /\ tasks' = [tasks EXCEPT ![k] = [t EXCEPT !.st = "failed", !.prev = resp.kind,
                                                         !.err = resp.kind]]
              /\ Finish([NoRes EXCEPT !.kind = "json", !.status = serverCatch(resp.kind),
                                      !.error = Error("AxiosError", "", resp.kind)])
              /\ UNCHANGED <<did, weather>>
         ELSE IF k = 1
         THEN /\ tasks' = Append([tasks EXCEPT ![k] = [t EXCEPT !.st = "ok", !.prev = "ok"]],
                                 Task(t.city, "forecast", 0, t.units, "direct"))
              /\ UNCHANGED <<pc, call, did, weather, res>>
         ELSE /\ tasks' = [tasks EXCEPT ![k] = [t EXCEPT !.st = "ok", !.prev = "ok"]]
              /\ BeginSummary(<<WeatherData(t.city, TRUE, Some([d \in 1..resp.nb |-> d]))>>)
  /\ UNCHANGED <<arg, out, site, req, intent, parsedBy, failed, resolvedIntent, location, summary>>

\* generateAISummary gets an answer from the model: its own fallback summary
\* when the call or JSON.parse throws
ServerSummaryAnswer(resp) ==
  /\ site = "server"
  /\ pc = "summarizing"
  /\ summary' = IF resp.kind # "json" THEN Some("fallback") ELSE The(resp.body).briefing
  /\ failed' = IF resp.kind # "json" THEN failed \cup {"summary"} ELSE failed
  /\ Finish(OkRes(weather, summary'))
  /\ UNCHANGED <<arg, out, site, req, intent, parsedBy, resolvedIntent, location,
                 did, tasks, weather>>

Next ==
  \/ ProcessQuery
  \/ ValidateReject
  \/ PostWeather
  \/ GetForecast
  \/ PostCompare
  \/ ServerPostWeather
  \/ \E resp \in ModelResponses(RawOutputs) : ParseAnswer(resp)
  \/ \E resp \in GeoResponses : GeoAnswer(resp)
  \/ \E k \in DOMAIN tasks : \E resp \in ProviderResponses(tasks[k].op) : ProviderAnswer(k, resp)
  \/ \E resp \in ModelResponses(SummaryOutputs) : SummaryAnswer(resp)
  \/ \E resp \in ModelResponses(ServerOutputs) : ServerParseAnswer(resp)
  \/ \E resp \in ProviderResponses(IF tasks = <<>> THEN "current" ELSE tasks[Len(tasks)].op) :
       ServerProviderAnswer(resp)
  \/ \E resp \in ModelResponses(SummaryOutputs) : ServerSummaryAnswer(resp)

Spec == Init /\ [][Next]_vars

(***************************************************************************)
(* The fallback parser on its own, over the queries made of a few words    *)
(***************************************************************************)

\* the most words of a query handed to the fallback parser
MaxWords == 3

\* the words of those queries: the empty word makes leading, trailing and
\* doubled spaces
Words ==
  { <<>>, Word.in, Word.for, Word.Paris, Word.in \o Word.space \o Word.Paris, Word.in \o Word.space \o Word.London,
    Word.today, Word.tomorrow, Word.weekend, Word.forecast, Word.here, Word.my_location, Word.vs }

FallbackQueries == { join(ws) : ws \in UNION { [1..n -> Words] : n \in 0..MaxWords } }

FallbackInit ==
  /\ site = "fallback"
  /\ req \in { Payload(Some(q), None, None, None, None, None) : q \in FallbackQueries }
  /\ arg = None
  /\ Fresh

\* parseIntentFallback(query) is called
ApplyFallback ==
  /\ site = "fallback"
  /\ pc = "start"
  /\ intent' = Some(parseIntentFallback(The(req.query)))
  /\ parsedBy' = "fallback"
  /\ pc' = "done"
  /\ UNCHANGED <<arg, out, site, req, failed, resolvedIntent, location, call, did, tasks,
                 weather, summary, res>>

FallbackSpec == FallbackInit /\ [][ApplyFallback]_vars

(***************************************************************************)
(* Functions on their own, each applied once to an argument                *)
(***************************************************************************)

Call(fn, x) == [fn |-> fn, x |-> x]

\* the largest absolute value of a latitude or longitude the provider answers
MaxCoord == 2

\* GeoIPService.getCurrentLocation, given what retry ended with
getCurrentLocation(resp) ==
  IF resp.kind # "ok" THEN Threw ELSE getCurrentLocationCheck(resp.data)

\* the largest wind direction, in degrees
MaxDegree == 360

\* the 16-point compass list of getWindDirection and degreeToDirection
directions ==
  << "N", "NNE", "NE", "ENE", "E", "ESE", "SE", "SSE",
     "S", "SSW", "SW", "WSW", "W", "WNW", "NW", "NNW" >>

MathRound_floor(n, d) == n \div d

\* Math.round(n / d) for integers n and d > 0: Math.round(x) is floor(x + 1/2)
MathRound(n, d) == (2 * n + d) \div (2 * d)

\* getWindDirection: directions[index] || "N"; degrees / 22.5 is
\* 4 * degrees / 90
getWindDirection(degrees) ==
  IF (MathRound(4 * degrees, 90) % 16) + 1 \in DOMAIN directions
  THEN directions[(MathRound(4 * degrees, 90) % 16) + 1]
  ELSE "N"

\* degreeToDirection
degreeToDirection(degree) == directions[(MathRound(4 * degree, 90) % 16) + 1]

\* the largest provider temperature is 5 * MaxTemp degrees
MaxTemp == 12

\* A temperature is a JavaScript number; it is kept exactly, as the fraction
\* n / d with d > 0, so that the arithmetic of the conversions is the
\* arithmetic of the formulas and not of one rounding mode.
Temps ==
  { [n |-> 5 * k, d |-> dd] : k \in -MaxTemp..MaxTemp, dd \in {1, 10} }

toCelsius_noOffset(temp) == [n |-> temp.n * 5, d |-> temp.d * 9]

\* ((temp - 32) * 5) / 9
toCelsius(temp) == [n |-> (temp.n - 32 * temp.d) * 5, d |-> temp.d * 9]

\* (temp * 9) / 5 + 32
toFahrenheit(temp) == [n |-> temp.n * 9 + 32 * (temp.d * 5), d |-> temp.d * 5]

\* getTemperatureColor: tempC < k is n < k * d for the fraction n / d
getTemperatureColor(temp, units) ==
  LET tempC == IF units = "imperial" THEN toCelsius(temp) ELSE temp
  IN  IF tempC.n < 0 THEN "blue"
      ELSE IF tempC.n < 10 * tempC.d THEN "cyan"
      ELSE IF tempC.n < 20 * tempC.d THEN "green"
      ELSE IF tempC.n < 30 * tempC.d THEN "yellow"
      ELSE IF tempC.n < 40 * tempC.d THEN "red"
      ELSE "magenta"

\* the temperatures of getWeatherData's reply: current.temp_c .. feelslike_f
\* and, for the first five forecast items, day.maxtemp_c .. mintemp_f
getWeatherData(units, main, list) ==
  [ temp_c      |-> IF units = "metric" THEN main.temp ELSE toCelsius(main.temp),
    temp_f      |-> IF units = "metric" THEN toFahrenheit(main.temp) ELSE main.temp,
    feelslike_c |-> IF units = "metric" THEN main.feels_like
                    ELSE toCelsius(main.feels_like),
    feelslike_f |-> IF units = "metric" THEN toFahrenheit(main.feels_like)
                    ELSE main.feels_like,
    forecast    |->
      [ k \in 1..Min(Len(list), 5) |->
          [ maxtemp_c |-> IF units = "metric" THEN list[k].temp_max
                          ELSE toCelsius(list[k].temp_max),
            maxtemp_f |-> IF units = "metric" THEN toFahrenheit(list[k].temp_max)
                          ELSE list[k].temp_max,
            mintemp_c |-> IF units = "metric" THEN list[k].temp_min
                          ELSE toCelsius(list[k].temp_min),
            mintemp_f |-> IF units = "metric" THEN toFahrenheit(list[k].temp_min)
                          ELSE list[k].temp_min ] ] ]

\* the longest forecast payload and the largest day count
MaxSamples == 3
MaxDays == 3

\* The forecast entries of the provider. dt is in seconds, main.temp in tenths
\* of a degree and pop in thousandths; weather is weather[0], if there is one.
\* The times are 00:00 and 21:00 of day 0, 00:00 of day 1 and 03:00 of day 2.
ForecastEntries ==
  { [dt |-> t, temp |-> k.temp, pop |-> k.pop, weather |-> k.weather] :
      t \in {0, 75600, 86400, 183600},
      k \in { [temp |-> -15, pop |-> 455,
               weather |-> Some([main |-> <<"R","a","i","n">>,
                                 description |-> <<"l","i","g","h","t"," ","r","a","i","n">>,
                                 icon |-> "10d"])],
              [temp |-> 200, pop |-> 0,
               weather |-> Some([main |-> <<"C","l","o","u","d","s">>,
                                 description |-> <<"f","e","w"," ","c","l","o","u","d","s",
                                                   ":"," ","1","1","-","2","5","%">>,
                                 icon |-> "02d"])],
              [temp |-> 0, pop |-> 1000, weather |-> None] } }

\* new Date(entry.dt * 1000).toISOString().split("T")[0]: the UTC calendar
\* day, kept as the number of the day; the date strings of the years 0000 to
\* 9999 sort as the day numbers do
dayKey(dt) == (dt * 1000) \div 86400000

\* groupedByDay after the forEach: the entries of each day, in list order
groupedByDay(list) ==
  [ k \in { dayKey(list[i].dt) : i \in DOMAIN list } |->
      SelectSeq(list, LAMBDA entry : dayKey(entry.dt) = k) ]

sortedDays_all(keys, days) ==
  [ i \in 1..Cardinality(keys) |->
      CHOOSE k \in keys : Cardinality({ j \in keys : j < k }) = i - 1 ]

\* Array.from(groupedByDay.keys()).sort().slice(0, days), days >= 0
sortedDays(keys, days) ==
  [ i \in 1..Min(days, Cardinality(keys)) |->
      CHOOSE k \in keys : Cardinality({ j \in keys : j < k }) = i - 1 ]

mostCommonWeather_first(withWeather) ==
  The(withWeather[1].weather).main \o <<"-">> \o The(withWeather[1].weather).description

\* weatherCounts' keys `${main}-${description}` in the order of insertion,
\* sorted by count, greatest first; the sort is stable, so that the first of
\* them is the key of the earliest entry whose key has the greatest count.
\* withWeather: the entries of the day that have a weather[0]
mostCommonWeather(withWeather) ==
  LET keys == [ i \in DOMAIN withWeather |->
                  The(withWeather[i].weather).main \o <<"-">>
                    \o The(withWeather[i].weather).description ]
  IN  keys[CHOOSE i \in DOMAIN keys :
             /\ \A j \in DOMAIN keys :
                  Cardinality({ m \in DOMAIN keys : keys[m] = keys[j] })
                    <= Cardinality({ m \in DOMAIN keys : keys[m] = keys[i] })
             /\ \A j \in 1..(i - 1) :
                  Cardinality({ m \in DOMAIN keys : keys[m] = keys[j] })
                    < Cardinality({ m \in DOMAIN keys : keys[m] = keys[i] })]

\* description, icon and main of a day whose most common key splits into
\* parts: description || "Unknown", weatherEntry?.weather[0]?.icon || "01d",
\* main || "Clear"
dayCondition(withWeather, parts) ==
  [ main        |-> IF parts[1] = <<>> THEN <<"C","l","e","a","r">> ELSE parts[1],
    description |-> IF Len(parts) < 2 \/ parts[2] = <<>>
                    THEN Word.Unknown ELSE parts[2],
    icon        |->
      IF \E i \in DOMAIN withWeather :
           /\ Len(parts) >= 2
           /\ The(withWeather[i].weather).main = parts[1]
           /\ The(withWeather[i].weather).description = parts[2]
      THEN The(withWeather[CHOOSE i \in DOMAIN withWeather :
                 /\ The(withWeather[i].weather).main = parts[1]
                 /\ The(withWeather[i].weather).description = parts[2]
                 /\ \A j \in 1..(i - 1) :
                      \/ The(withWeather[j].weather).main # parts[1]
                      \/ The(withWeather[j].weather).description # parts[2]].weather).icon
      ELSE "01d" ]

\* the entry transformForecast pushes for one day (humidity and windSpeed,
\* two averages, are left out); withWeather: the entries that have a
\* weather[0]
dayForecast(day, dayEntries, withWeather) ==
  [ date |-> day,
    temperature |->
      [ min |-> MinOf({ dayEntries[i].temp : i \in DOMAIN dayEntries }),
        max |-> MaxOf({ dayEntries[i].temp : i \in DOMAIN dayEntries }) ],
    condition |->
      IF withWeather = <<>>
      THEN [ main |-> <<"C","l","e","a","r">>, description |-> Word.Unknown,
             icon |-> "01d" ]
      ELSE dayCondition(withWeather, split(mostCommonWeather(withWeather), "-")),
    \* Math.round(Math.max(...precipitationProbs) * 100)
    precipitationProbability |->
      MathRound(MaxOf({ dayEntries[i].pop : i \in DOMAIN dayEntries }) * 100, 1000) ]

\* OpenWeatherService.transformForecast on the list of the payload
transformForecastList(list, days) ==
  [ i \in DOMAIN sortedDays(DOMAIN groupedByDay(list), days) |->
      dayForecast(sortedDays(DOMAIN groupedByDay(list), days)[i],
                  groupedByDay(list)[sortedDays(DOMAIN groupedByDay(list), days)[i]],
                  SelectSeq(groupedByDay(list)[sortedDays(DOMAIN groupedByDay(list), days)[i]],
                            LAMBDA entry : entry.weather # None)) ]

\* String.prototype.match(/\{[\s\S]*\}/): the leftmost "{" that has a "}"
\* after it, and, the star being greedy, all up to the last "}"
jsonMatch(content) ==
  IF \E i, j \in DOMAIN content : i < j /\ content[i] = "{" /\ content[j] = "}"
  THEN Some(SubSeq(content,
                   MinOf({ i \in DOMAIN content : content[i] = "{" }),
                   MaxOf({ j \in DOMAIN content : content[j] = "}" })))
  ELSE None

\* the arguments each function is applied to
Inputs(fn) ==
  CASE fn = "getCurrentLocation" ->
         \* the answers of the geolocation provider once retry is done with them
         { [kind |-> k, data |-> GeoData(None, None)] : k \in {"429", "timeout", "error"} }
         \cup { [kind |-> "ok", data |-> [city |-> c, country |-> co, lat |-> la, lon |-> lo]] :
                  c \in {None, Some(Word.Boston)}, co \in {None, Some("US")},
                  la \in {None} \cup { Some(v) : v \in -MaxCoord..MaxCoord },
                  lo \in {None} \cup { Some(v) : v \in -MaxCoord..MaxCoord } }
    [] fn = "getWeatherData" ->
         \* the provider's answers: a temperature, a feels-like temperature at
         \* or 3 degrees below it, and no or one forecast item whose extremes
         \* lie 2 degrees around it
         { [ units |-> u,
             main  |-> [temp |-> t, feels_like |-> [n |-> t.n - f * t.d, d |-> t.d]],
             list  |-> [k \in 1..nb |->
                         [ temp_max |-> [n |-> t.n + 2 * t.d, d |-> t.d],
                           temp_min |-> [n |-> t.n - 2 * t.d, d |-> t.d] ]] ] :
             u \in {"metric", "imperial", "kelvin"}, t \in Temps, f \in {0, 3}, nb \in 0..1 }
    [] fn = "transformForecast" ->
         \* the payloads and day counts
         { [list |-> l, days |-> d] :
             l \in UNION { [1..n -> ForecastEntries] : n \in 0..MaxSamples },
             d \in 1..MaxDays }
    [] fn = "windDirection" -> { [degrees |-> d] : d \in 0..MaxDegree }
    [] fn = "jsonMatch" ->
         \* the content of a model answer: an object, or none, between two
         \* pieces of commentary
         { [pre |-> a, object |-> o, post |-> b] :
             a \in { <<>>, <<"O","K",":"," ">>, <<"{","x","}"," ">>, <<"}"," ">> },
             o \in { <<>>, <<"{","a","}">>, <<"{","a",":","{","b","}","}">> },
             b \in { <<>>, <<" ","o","k">>, <<" ","{","y","}">>, <<" ","{">> } }

UnitCalls ==
  UNION { { Call(fn, x) : x \in Inputs(fn) } :
            fn \in {"getCurrentLocation", "getWeatherData", "transformForecast",
                    "windDirection", "jsonMatch"} }

UnitInit ==
  /\ site = "unit"
  /\ req = Payload(None, None, None, None, None, None)
  /\ arg \in UnitCalls
  /\ Fresh

\* the function named by arg returns r
Returns(r) ==
  /\ out' = Some(r)
  /\ UNCHANGED <<site, req, pc, intent, parsedBy, failed, resolvedIntent, location,
                 call, did, tasks, weather, summary, res, arg>>

ApplyGetCurrentLocation ==
  /\ site = "unit"
  /\ out = None
  /\ arg.fn = "getCurrentLocation"
  /\ Returns(getCurrentLocation(arg.x))

\* getWindDirection and degreeToDirection are called with the same degrees
ApplyWindDirection ==
  /\ site = "unit"
  /\ out = None
  /\ arg.fn = "windDirection"
  /\ Returns([utils |-> getWindDirection(arg.x.degrees),
              server |-> degreeToDirection(arg.x.degrees)])

ApplyGetWeatherData ==
  /\ site = "unit"
  /\ out = None
  /\ arg.fn = "getWeatherData"
  /\ Returns(getWeatherData(arg.x.units, arg.x.main, arg.x.list))

ApplyTransformForecast ==
  /\ site = "unit"
  /\ out = None
  /\ arg.fn = "transformForecast"
  /\ Returns([forecast |-> transformForecastList(arg.x.list, arg.x.days),
              groupedByDay |-> groupedByDay(arg.x.list),
              mostCommonWeather |->
                [ k \in DOMAIN groupedByDay(arg.x.list) |->
                    IF \A i \in DOMAIN groupedByDay(arg.x.list)[k] :
                         groupedByDay(arg.x.list)[k][i].weather = None
                    THEN None
                    ELSE Some(mostCommonWeather(
                           SelectSeq(groupedByDay(arg.x.list)[k],
                                     LAMBDA entry : entry.weather # None))) ]])

\* the callback of parseIntent and of generateSummary matches the content
ApplyJsonMatch ==
  /\ site = "unit"
  /\ out = None
  /\ arg.fn = "jsonMatch"
  /\ Returns(jsonMatch(arg.x.pre \o arg.x.object \o arg.x.post))

UnitNext ==
  \/ ApplyGetCurrentLocation
  \/ ApplyJsonMatch
  \/ ApplyTransformForecast
  \/ ApplyGetWeatherData
  \/ ApplyWindDirection

UnitSpec == UnitInit /\ [][UnitNext]_vars

(***************************************************************************)
(* retry on its own, with a function that fails or succeeds at will        *)
(***************************************************************************)

\* the largest maxRetries retry is called with
MaxRetryArg == 4

RetryInit ==
  /\ site = "retry"
  /\ req = Payload(None, None, None, None, None, None)
  /\ arg \in { Call("retry", [maxRetries |-> m, delay |-> d]) :
                m \in 0..MaxRetryArg, d \in {0, 100, 1000} }
  /\ Fresh

\* retry invokes fn, attempt call.n (counted from 0), and fn settles: it
\* returns the attempt's value (ok) or throws the attempt's error. retry
\* returns, throws, or sets the timer for delay * 2^i
RetryInvoke(ok) ==
  /\ site = "retry"
  /\ out = None
  /\ arg.fn = "retry"
  /\ pc = "start"
  /\ call' = [op |-> "retry", n |-> call.n + 1, prev |-> IF ok THEN "ok" ELSE "error"]
  /\ LET o == retry(call.n, arg.x.maxRetries, ~ok)
     IN  IF o = "again"
         THEN pc' = "waiting" /\ out' = out
         ELSE pc' = "done" /\ out' = Some([threw |-> o = "throw", value |-> call.n])
  /\ UNCHANGED <<site, req, intent, parsedBy, failed, resolvedIntent, location,
                 did, tasks, weather, summary, res, arg>>

\* the timer of retry fires after waitTime, the loop goes on with i + 1
RetryWake ==
  /\ site = "retry"
  /\ arg.fn = "retry"
  /\ pc = "waiting"
  /\ did' = did \cup { [after |-> call.n - 1,
                         waitTime |-> arg.x.delay * 2^(call.n - 1)] }
  /\ pc' = "start"
  /\ UNCHANGED <<site, req, intent, parsedBy, failed, resolvedIntent, location,
                 call, tasks, weather, summary, res, arg, out>>

RetryNext ==
  \/ \E ok \in BOOLEAN : RetryInvoke(ok)
  \/ RetryWake

\* every invocation of fn settles and every timer fires
RetryLive == RetryInit /\ [][RetryNext]_vars /\ WF_vars(RetryNext)

(***************************************************************************)
(* The claims                                                              *)
(***************************************************************************)

\* C1: wherever a query is parsed (WeatherCLI.parseIntent, POST /weather,
\* parseQueryWithAI), when the model's parse fails - the call fails, the
\* answer is malformed, or the answer does not have the shape asked for -
\* the fallback parser's result is the one in use.
C1_ParseFailureUsesFallback ==
  (failed \cap {"parseCall", "parseMalformed", "parseSchema"} # {}) => parsedBy = "fallback"

\* C2: in WeatherCLI, once the provider calls of a comparison of two or more
\* cities have settled, the comparison has failed only if every call failed,
\* and otherwise goes on with the records of exactly the calls that succeeded.
C2_CompareSurvivesOneFailure ==
  (/\ site = "cli"
   /\ Len(tasks) >= 2
   /\ \A k \in DOMAIN tasks : tasks[k].st # "inflight") =>
    IF \E k \in DOMAIN tasks : tasks[k].st = "ok"
    THEN res.kind # "thrown" /\ weather = validWeatherData(tasks)
    ELSE res.kind = "thrown"

\* C3: in WeatherCLI and POST /weather, after a geolocation lookup that
\* succeeded, no provider call is made for the placeholder city "Unknown".
C3_NeverFetchesUnknown ==
  (site \in {"cli", "weather"} /\ "geo" \in did /\ "geo" \notin failed) =>
    \A k \in DOMAIN tasks : tasks[k].city # Word.Unknown

\* C4: parseIntentFallback returns, for every query, an Intent with at least
\* one city, a date.kind among today, tomorrow and range, units metric or
\* imperial, and booleans for useIpLocation and compare.
C4_FallbackTotal ==
  (site = "fallback" /\ pc = "done") =>
    /\ intent # None
    /\ IsWeatherIntent(The(intent))
    /\ Len(The(intent).cities) >= 1
    /\ The(intent).date.kind \in {"today", "tomorrow", "range"}
    /\ The(intent).units \in {"metric", "imperial"}
    /\ The(intent).useIpLocation \in BOOLEAN
    /\ The(intent).compare \in BOOLEAN

\* C4 happens: a query without a city that names both today and tomorrow
\* was parsed
C4_Witness ==
  /\ site = "fallback"
  /\ pc = "done"
  /\ includes(The(req.query), Word.today)
  /\ includes(The(req.query), Word.tomorrow)
  /\ The(intent).cities = <<Word.Unknown>>
  /\ The(intent).date.kind = "tomorrow"

\* C5: in WeatherCLI and the three routes, when generateSummary throws, the
\* request still ends in success with the weather records and no summary.
C5_SummaryFailureKeepsResult ==
  (site \in {"cli", "weather", "forecast", "compare"} /\ "summary" \in failed) =>
    /\ pc = "done"
    /\ res.success
    /\ res.kind = (IF site = "cli" THEN "rendered" ELSE "json")
    /\ (site # "cli" => res.status = 200)
    /\ weather # <<>>
    /\ res.data = (IF site = "weather" THEN <<weather[1]>> ELSE weather)
    /\ res.summary = None

\* C5 happens: POST /weather asked for a summary, generateSummary threw, and
\* the weather was returned
C5_Witness ==
  /\ site = "weather"
  /\ "summary" \in failed
  /\ pc = "done"
  /\ res.success
  /\ Len(res.data) = 1
  /\ res.summary = None

\* C6: in WeatherCLI, when getCurrentLocation fails for an intent with
\* useIpLocation, the query fails with "Failed to resolve your location",
\* no city is substituted, and neither the provider nor the summary is called.
C6_GeoFailureFailsQuery ==
  (site = "cli" /\ "geo" \in failed) =>
    /\ pc = "done"
    /\ res.kind = "thrown"
    /\ ~res.success
    /\ res.error.msg = "Failed to resolve your location"
    /\ resolvedIntent = None
    /\ tasks = <<>>
    /\ weather = <<>>
    /\ did = {"parse", "geo"}

\* C6 happens: WeatherCLI had an intent with useIpLocation and the
\* geolocation lookup failed
C6_Witness ==
  /\ site = "cli"
  /\ "geo" \in failed
  /\ The(intent).useIpLocation
  /\ res.kind = "thrown"

\* C7: a provider request answered with 401 or 404 is the only request of
\* its call: the call has failed after one request.
C7_NoRetryOn401Or404 ==
  \A k \in DOMAIN tasks :
    tasks[k].prev \in {"401", "404"} => tasks[k].st = "failed" /\ tasks[k].n = 1

\* C8: parseIntent and generateSummary make another model call only after a
\* call that failed, never after an answer that was received but malformed.
C8_MalformedNotRetried ==
  (site # "server" /\ call.op \in {"parse", "summary"} /\ call.n > 1) =>
    call.prev = "throw"

\* C9: POST /compare ends, once every call has settled, with a ServiceError
\* if and only if every city's call failed; otherwise its cities list holds
\* the records of the cities whose call succeeded, in the order of the
\* request, and comparedCities is the requested list.
C9_CompareKeepsRequestOrder ==
  (site = "compare" /\ pc = "done" /\ tasks # <<>>) =>
    LET cities == The(req.cities)
        ok == { k \in DOMAIN tasks : tasks[k].st = "ok" }
    IN  /\ Len(tasks) = Len(cities)
        /\ \A k \in DOMAIN tasks : tasks[k].city = cities[k] /\ tasks[k].st # "inflight"
        /\ IF ok = {}
           THEN ~res.success /\ res.error.cls = "ServiceError"
           ELSE /\ res.success
                /\ res.error = NoError
                /\ Len(res.data) = Cardinality(ok)
                /\ \A j \in DOMAIN res.data :
                     res.data[j].city =
                       cities[CHOOSE k \in ok : Cardinality({ m \in ok : m < k }) = j - 1]
                /\ res.comparedCities = cities

\* C9 happens: of two cities the first one's call failed and the second
\* one's succeeded
C9_Witness ==
  /\ site = "compare"
  /\ pc = "done"
  /\ Len(tasks) = 2
  /\ tasks[1].st = "failed"
  /\ tasks[2].st = "ok"
  /\ res.success
  /\ Len(res.data) = 1
  /\ res.data[1].city = The(req.cities)[2]

\* C10: a request to POST /weather, GET /forecast or POST /compare with a
\* missing or empty query or city, units outside metric and imperial, days
\* outside 1..10 or fewer than two cities is answered with 400, success
\* false and one validation entry for each such field, and nothing is called.
C10_InvalidRequestRejected ==
  LET bad ==
        (IF site = "weather" /\ (req.query = None \/ The(req.query) = <<>>)
         THEN {"query"} ELSE {})
        \cup (IF site = "forecast" /\ (req.city = None \/ The(req.city) = <<>>)
              THEN {"city"} ELSE {})
        \cup (IF req.units # None /\ The(req.units) \notin {"metric", "imperial"}
              THEN {"units"} ELSE {})
        \cup (IF site = "forecast" /\ req.days # None
                 /\ (The(req.days).t # "num" \/ The(req.days).v \notin 1..10)
              THEN {"days"} ELSE {})
        \cup (IF site = "compare" /\ (req.cities = None \/ Len(The(req.cities)) < 2)
              THEN {"cities"} ELSE {})
  IN  (site \in {"weather", "forecast", "compare"} /\ pc # "start" /\ bad # {}) =>
        /\ pc = "done"
        /\ res.kind = "json"
        /\ res.status = 400
        /\ ~res.success
        /\ \A f \in bad :
             Cardinality({ i \in res.issues : i.field = f /\ i.index = -1 }) = 1
        /\ did = {}
        /\ tasks = <<>>
        /\ intent = None
        /\ weather = <<>>

\* C10 happens: POST /weather was sent an empty query and unknown units
C10_Witness ==
  /\ site = "weather"
  /\ pc = "done"
  /\ req.query = Some(<<>>)
  /\ req.units = Some("kelvin")
  /\ res.status = 400
  /\ Cardinality(res.issues) = 2

\* C11: on the HTTP surface a request that ends with a failure of the weather
\* provider is answered with 502, 503 or 404: 404 when the provider said 404
\* (location not found), 503 when it said 401 (invalid credentials).
C11_ProviderFailureStatus ==
  LET kind == IF res.error.cls = "AxiosError" THEN res.error.msg
              ELSE IF res.error.cls = "Error"
                      /\ \E k \in ProviderFailures : res.error.msg = interceptor(k)
              THEN CHOOSE k \in ProviderFailures : res.error.msg = interceptor(k)
              ELSE "none"
  IN  (site # "cli" /\ pc = "done" /\ kind \in ProviderFailures) =>
        /\ res.status \in {502, 503, 404}
        /\ (kind = "404" => res.status = 404)
        /\ (kind = "401" => res.status = 503)

\* C12: a GET /forecast whose query string carries a city, units metric or
\* imperial, days = n with n in 1..10 and summary = true passes validation
\* and reaches the handler, which asks for a forecast of n days.
C12_ForecastQueryAccepted ==
  (/\ site = "forecast"
   /\ pc # "start"
   /\ req.city # None /\ Len(The(req.city)) >= 1
   /\ (req.units = None \/ The(req.units) \in {"metric", "imperial"})
   /\ req.days # None /\ The(req.days).t = "str" /\ The(req.days).v \in 1..10
   /\ req.summary = Some(Str(TRUE))) =>
    /\ res.status # 400
    /\ Len(tasks) = 2
    /\ tasks[2].days = The(req.days).v

\* C13: getCurrentLocation returns a location exactly when the request
\* succeeds and the answer carries a city, a country, a lat and a lon,
\* whatever the numbers lat and lon are; otherwise it fails.
C13_LocationIffComplete ==
  (site = "unit" /\ arg.fn = "getCurrentLocation" /\ out # None) =>
    (~The(out).threw <=>
       /\ arg.x.kind = "ok"
       /\ arg.x.data.city # None
       /\ arg.x.data.country # None
       /\ arg.x.data.lat # None
       /\ arg.x.data.lon # None)

\* C14: for "compare London and Paris weather" parsed by the fallback parser
\* in WeatherCLI, the intent has cities London, Paris and compare = true,
\* and the provider calls, once started, are two current-weather calls, one
\* for London and one for Paris.
C14_CompareLondonParis ==
  (site = "cli" /\ req.query = Some(Query.compare) /\ parsedBy = "fallback") =>
    /\ The(intent).cities = <<Word.London, Word.Paris>>
    /\ The(intent).compare
    /\ (tasks # <<>> =>
          /\ Len(tasks) = 2
          /\ tasks[1].city = Word.London /\ tasks[1].op = "current"
          /\ tasks[2].city = Word.Paris /\ tasks[2].op = "current")

\* C15: an intent returned by parseIntent or by parseIntentFallback with
\* compare = true names at least two cities.
C15_CompareNeedsTwoCities ==
  (site \in {"cli", "weather"} /\ intent # None /\ The(intent).compare) =>
    Len(The(intent).cities) >= 2

\* C16: for a query that names no unit (neither celsius nor fahrenheit),
\* the intent parseIntentFallback produces has the units the caller asked
\* for (the CLI's or the request's units), and the provider is called with
\* those units.
C16_FallbackUnitsDefault ==
  (/\ site \in {"cli", "weather"}
   /\ parsedBy = "fallback"
   /\ ~includes(toLowerCase(The(req.query)), <<"c","e","l","s","i","u","s">>)
   /\ ~includes(toLowerCase(The(req.query)), <<"f","a","h","r","e","n","h","e","i","t">>)) =>
    /\ The(intent).units = The(req.units)
    /\ \A k \in DOMAIN tasks : tasks[k].units = The(req.units)

\* C17: for every whole wind direction d in 0..MaxDegree, getWindDirection
\* and degreeToDirection both return the compass label at index
\* round(d / 22.5) mod 16, one of the 16 labels; 0 gives "N" and 360 gives
\* what 0 gives.
C17_CompassLabel ==
  (site = "unit" /\ arg.fn = "windDirection" /\ out # None) =>
    LET d == arg.x.degrees
        \* the multiple of 22.5 nearest to d: |d - 22.5 n| < 11.25
        n == CHOOSE m \in 0..(MaxDegree \div 22 + 1) :
               4 * d - 90 * m < 45 /\ 90 * m - 4 * d <= 45
    IN  /\ The(out).utils = directions[(n % 16) + 1]
        /\ The(out).server = The(out).utils
        /\ The(out).utils \in Range(directions)
        /\ (d = 0 => The(out).utils = "N")
        /\ (d = 360 => The(out).utils = getWindDirection(0))

\* C17 happens: the direction 360 was converted, and gave "N"
C17_Witness ==
  /\ site = "unit"
  /\ arg.fn = "windDirection"
  /\ arg.x.degrees = 360
  /\ out # None
  /\ The(out).utils = "N"
  /\ The(out).server = "N"

\* C18: the two temperature conversions are inverse to each other, F to C to F
\* and C to F to C give the value back, and every Celsius / Fahrenheit pair
\* of getWeatherData's reply (temperature, feels-like, forecast maximum and
\* minimum) is one temperature, 5 (f - 32) = 9 c, whichever units were asked
\* for; getTemperatureColor gives the pair one colour.
C18_ConversionsInverse ==
  (site = "unit" /\ arg.fn = "getWeatherData" /\ out # None) =>
    LET r == The(out)
        Same(a, b) == a.n * b.d = b.n * a.d
        \* 5 (f - 32) = 9 c for the fractions c and f
        OneTemperature(c, f) == 5 * (f.n - 32 * f.d) * c.d = 9 * c.n * f.d
        RoundTrip(t) == /\ Same(toCelsius(toFahrenheit(t)), t)
                        /\ Same(toFahrenheit(toCelsius(t)), t)
    IN  /\ RoundTrip(arg.x.main.temp)
        /\ RoundTrip(arg.x.main.feels_like)
        /\ OneTemperature(r.temp_c, r.temp_f)
        /\ OneTemperature(r.feelslike_c, r.feelslike_f)
        /\ getTemperatureColor(r.temp_c, "metric")
             = getTemperatureColor(r.temp_f, "imperial")
        /\ \A k \in DOMAIN r.forecast :
             /\ RoundTrip(arg.x.list[k].temp_max)
             /\ OneTemperature(r.forecast[k].maxtemp_c, r.forecast[k].maxtemp_f)
             /\ OneTemperature(r.forecast[k].mintemp_c, r.forecast[k].mintemp_f)

\* C18 happens: 50 degrees were asked for in imperial units and came back as
\* 50 F and 10 C, with a forecast item
C18_Witness ==
  /\ site = "unit"
  /\ arg.fn = "getWeatherData"
  /\ arg.x.units = "imperial"
  /\ arg.x.main.temp = [n |-> 50, d |-> 1]
  /\ out # None
  /\ The(out).temp_f = [n |-> 50, d |-> 1]
  /\ The(out).temp_c.n = 10 * The(out).temp_c.d
  /\ The(out).forecast # << >>

\* C19: each day of the forecast has as temperature.min the least and as
\* temperature.max the greatest temperature of the samples of its calendar
\* day, and as precipitationProbability the greatest pop of these samples,
\* in percent, rounded to the nearest integer (half goes up).
C19_DayAggregates ==
  (site = "unit" /\ arg.fn = "transformForecast" /\ out # None) =>
    \A i \in DOMAIN The(out).forecast :
      LET day == The(out).forecast[i]
          bucket == { e \in Range(arg.x.list) :
                        day.date * 86400 <= e.dt /\ e.dt < (day.date + 1) * 86400 }
          p == day.precipitationProbability
      IN  /\ bucket # {}
          /\ \A e \in bucket : day.temperature.min <= e.temp
          /\ \A e \in bucket : e.temp <= day.temperature.max
          /\ \E e \in bucket : e.temp = day.temperature.min
          /\ \E e \in bucket : e.temp = day.temperature.max
          /\ \E e \in bucket :
               /\ \A o \in bucket : o.pop <= e.pop
               \* p is the integer nearest to pop * 100, pop in thousandths
               /\ 10 * p - e.pop <= 5
               /\ e.pop - 10 * p < 5

\* C19 happens: a day with a sample of -1.5 degrees and pop 0.455 and a
\* sample of 20 degrees and pop 0 was aggregated
C19_Witness ==
  /\ site = "unit"
  /\ arg.fn = "transformForecast"
  /\ out # None
  /\ \E i \in DOMAIN The(out).forecast :
       /\ The(out).forecast[i].temperature = [min |-> -15, max |-> 200]
       /\ The(out).forecast[i].precipitationProbability = 46

\* C20: the forecast has at most days entries, one for each calendar day,
\* with ascending dates; its days are the earliest days calendar days of the
\* payload; and every sample is in exactly one bucket, that of its UTC day.
C20_EarliestDays ==
  (site = "unit" /\ arg.fn = "transformForecast" /\ out # None) =>
    LET f == The(out).forecast
        g == The(out).groupedByDay
        list == arg.x.list
        \* the UTC day of a time in seconds
        utcDay(dt) == CHOOSE k \in 0..(dt \div 3600) :
                        k * 86400 <= dt /\ dt < (k + 1) * 86400
        present == { utcDay(list[i].dt) : i \in DOMAIN list }
    IN  /\ Len(f) <= arg.x.days
        /\ \A i, j \in DOMAIN f : i < j => f[i].date < f[j].date
        /\ { f[i].date : i \in DOMAIN f }
             = { k \in present : Cardinality({ j \in present : j < k }) < arg.x.days }
        /\ DOMAIN g = present
        /\ \A k \in DOMAIN g :
             /\ \A i \in DOMAIN g[k] : utcDay(g[k][i].dt) = k
             /\ Len(g[k]) = Cardinality({ i \in DOMAIN list : utcDay(list[i].dt) = k })

\* C20 happens: a payload of three calendar days, the latest first, was
\* transformed for two days, and gave day 0 and day 1
C20_Witness ==
  /\ site = "unit"
  /\ arg.fn = "transformForecast"
  /\ arg.x.days = 2
  /\ Len(arg.x.list) = 3
  /\ arg.x.list[1].dt = 183600
  /\ arg.x.list[2].dt = 86400
  /\ arg.x.list[3].dt = 75600
  /\ out # None
  /\ Len(The(out).forecast) = 2
  /\ The(out).forecast[1].date = 0
  /\ The(out).forecast[2].date = 1

\* C21: in every bucket with a condition entry, the selected condition is
\* the (main, description) pair that occurs most often among the bucket's
\* samples, and of several pairs with the greatest count the one met first
\* in sample order.
C21_MostCommonCondition ==
  (site = "unit" /\ arg.fn = "transformForecast" /\ out # None) =>
    \A k \in DOMAIN The(out).mostCommonWeather :
      LET \* the conditions of the samples of day k, in sample order
          ws == SelectSeq(arg.x.list,
                  LAMBDA e : /\ e.weather # None
                             /\ k * 86400 <= e.dt /\ e.dt < (k + 1) * 86400)
          pair(i) == << The(ws[i].weather).main, The(ws[i].weather).description >>
          count(i) == Cardinality({ m \in DOMAIN ws : pair(m) = pair(i) })
      IN  IF ws = << >> THEN The(out).mostCommonWeather[k] = None
          ELSE \E w \in DOMAIN ws :
                 /\ \A j \in DOMAIN ws : count(j) <= count(w)
                 /\ \A j \in 1..(w - 1) : count(j) < count(w)
                 /\ The(out).mostCommonWeather[k]
                      = Some(pair(w)[1] \o <<"-">> \o pair(w)[2])

\* C21 happens: in a day with light rain, then few clouds, then a sample
\* without condition, both pairs occur once, and light rain, met first, is
\* selected
C21_Witness ==
  /\ site = "unit"
  /\ arg.fn = "transformForecast"
  /\ out # None
  /\ Len(arg.x.list) = 3
  /\ \A i \in 1..3 : arg.x.list[i].dt = 0
  /\ arg.x.list[1].temp = -15
  /\ arg.x.list[2].temp = 200
  /\ arg.x.list[3].temp = 0
  /\ The(The(out).mostCommonWeather[0])[1] = "R"

\* C22: for every day of the forecast whose bucket has a condition entry,
\* the emitted main and description are those of the selected pair, the
\* emitted icon is that of the first sample with this pair, and the default
\* icon "01d" and the default condition "Unknown" are not emitted.
C22_ConditionAsSelected ==
  (site = "unit" /\ arg.fn = "transformForecast" /\ out # None) =>
    \A d \in DOMAIN The(out).forecast :
      LET day == The(out).forecast[d]
          ws == SelectSeq(arg.x.list,
                  LAMBDA e : /\ e.weather # None
                             /\ day.date * 86400 <= e.dt
                             /\ e.dt < (day.date + 1) * 86400)
          pair(i) == << The(ws[i].weather).main, The(ws[i].weather).description >>
          count(i) == Cardinality({ m \in DOMAIN ws : pair(m) = pair(i) })
      IN  ws # << >> =>
            \E w \in DOMAIN ws :
              /\ \A j \in DOMAIN ws : count(j) <= count(w)
              /\ \A j \in 1..(w - 1) : count(j) < count(w)
              /\ day.condition.main = pair(w)[1]
              /\ day.condition.description = pair(w)[2]
              /\ day.condition.icon = The(ws[w].weather).icon
              /\ day.condition.icon # "01d"
              /\ day.condition.description # Word.Unknown

C24_TomorrowIsSecondDay ==
  (site = "cli" /\ resolvedIntent # None
     /\ The(resolvedIntent).date.kind = "tomorrow") =>
    \A k \in DOMAIN tasks :
      /\ tasks[k].op = "forecast"
      /\ tasks[k].days = 2
      /\ tasks[k].st = "ok" =>
           /\ Len(The(The(tasks[k].data).forecast)) = 1
           /\ The(The(tasks[k].data).forecast)[1] = 2

\* C25: the date of the intent parseIntentFallback returns is: kind tomorrow
\* if the lower-cased query contains "tomorrow"; otherwise kind range with
\* weekend true and days 2 if it contains "weekend"; otherwise kind range
\* with days 5 if it contains "forecast" or "next"; otherwise kind today.
C25_FallbackDatePrecedence ==
  (site = "fallback" /\ intent # None) =>
    LET q == toLowerCase(The(req.query))
        date == The(intent).date
    IN  IF includes(q, Word.tomorrow) THEN date.kind = "tomorrow"
        ELSE IF includes(q, Word.weekend)
        THEN date.kind = "range" /\ date.weekend = Some(TRUE) /\ date.days = Some(2)
        ELSE IF includes(q, Word.forecast) \/ includes(q, Word.next)
        THEN date.kind = "range" /\ date.days = Some(5)
        ELSE date.kind = "today"

\* C26: parseIntentFallback sets useIpLocation only when it extracted no
\* city and the query mentions "here" or "my location"; useIpLocation
\* implies that cities is <<"Unknown">>; a query with no city and no such
\* mention gives useIpLocation = FALSE.
C26_IpLocationOnlyWhenAsked ==
  (site = "fallback" /\ intent # None) =>
    LET q == toLowerCase(The(req.query))
        mentions == includes(q, Word.here) \/ includes(q, Word.my_location)
        noCity == extractCities(The(req.query)) = << >>
    IN  /\ The(intent).useIpLocation => (noCity /\ mentions)
        /\ The(intent).useIpLocation => The(intent).cities = <<Word.Unknown>>
        /\ (noCity /\ ~mentions) => ~The(intent).useIpLocation

\* C27: retry(fn, maxRetries, delay) invokes fn at most maxRetries + 1
\* times; it returns the value of the first invocation that succeeds and
\* invokes fn no more; after the failed attempt i it waits delay * 2^i
\* before the next one; when attempt maxRetries fails it throws that
\* attempt's error without waiting; and it terminates.
C27_RetryContract ==
  /\ [](site = "retry" =>
          /\ call.n <= arg.x.maxRetries + 1
          /\ did = { [after |-> i, waitTime |-> arg.x.delay * 2^i] :
                       i \in 0..((IF pc = "start" THEN call.n ELSE call.n - 1) - 1) }
          /\ out # None =>
               /\ pc = "done"
               /\ The(out).value = call.n - 1
               /\ The(out).threw = (call.prev = "error")
               /\ The(out).threw => call.n = arg.x.maxRetries + 1)
  /\ [][(site = "retry" /\ out # None) => call' = call]_vars
  /\ <>(site = "retry" => out # None)

\* C27 happens: retry with maxRetries 3 and delay 1000 threw the error of
\* the fourth attempt, after waits of 1000, 2000 and 4000
C27_Witness ==
  /\ site = "retry"
  /\ arg.fn = "retry"
  /\ arg.x = [maxRetries |-> 3, delay |-> 1000]
  /\ out = Some([threw |-> TRUE, value |-> 3])
  /\ call.n = 4
  /\ { w.waitTime : w \in did } = {1000, 2000, 4000}

\* C28: in WeatherCLI.processQuery the stages run in the order parse,
\* location resolution, weather fetch, summary, render: no provider call
\* starts before the location is resolved, the summary starts only after
\* every fetch succeeded, the result is rendered at most once and only after
\* the summary stage finished, and after the location resolution or a
\* fetch failed no later stage runs.
C28_StagesInOrder ==
  /\ [](site = "cli" =>
          /\ intent = None =>
               /\ did \subseteq {"parse"}
               /\ resolvedIntent = None
          /\ resolvedIntent = None =>
               /\ tasks = << >>
               /\ "summary" \notin did
               /\ res.kind # "rendered"
          /\ tasks # << >> => pc # "resolving"
          /\ "summary" \in did =>
               /\ tasks # << >>
               /\ \A k \in DOMAIN tasks : tasks[k].st = "ok"
          /\ res.kind = "rendered" =>
               /\ "summary" \in did
               /\ pc = "done"
               /\ call = Idle
          /\ "geo" \in failed =>
               /\ tasks = << >>
               /\ res.kind = "thrown"
          /\ (\E k \in DOMAIN tasks : tasks[k].st = "failed") =>
               /\ "summary" \notin did
               /\ res.kind = "thrown")
  /\ [][(site = "cli" /\ pc = "done") => (res' = res /\ did' = did /\ pc' = pc)]_vars

\* C28 happens: a query went through the geolocation, the fetch and the
\* summary, and was rendered
C28_Witness ==
  /\ site = "cli"
  /\ did = {"parse", "geo", "summary"}
  /\ tasks # << >>
  /\ res.kind = "rendered"

\* C29: when the content of the model answer is one JSON object with
\* commentary before or after it, commentary with braces included, the text
\* handed to JSON.parse is exactly that object.
C29_FirstObjectExtracted ==
  (site = "unit" /\ arg.fn = "jsonMatch" /\ out # None /\ arg.x.object # << >>) =>
    The(out) = Some(arg.x.object)

\* C30: WeatherCLI.resolveLocation changes nothing but the cities: without
\* useIpLocation it returns the intent as it is and makes no geolocation
\* call; with useIpLocation and a geolocation that succeeds, the intent it
\* returns has the date, units, extras, compare and useIpLocation of its
\* input, and its cities are the one resolved city.
C30_OnlyCitiesResolved ==
  (site = "cli" /\ resolvedIntent # None) =>
    LET i == The(intent)
        r == The(resolvedIntent)
    IN  /\ ~i.useIpLocation => (r = i /\ "geo" \notin did)
        /\ i.useIpLocation =>
             /\ "geo" \in did
             /\ r.date = i.date
             /\ r.units = i.units
             /\ r.extras = i.extras
             /\ r.compare = i.compare
             /\ r.useIpLocation = i.useIpLocation
             /\ r.cities = <<Word.Boston>>

====
